---- MODULE Spec2Model ----
(***************************************************************************)
(* Model of the attendance verification back end:                          *)
(*   backend/core/gates.py  - the four gates and the blink session map     *)
(*   backend/main.py        - the verify_attendance pipeline and the       *)
(*                            user / challenge endpoints                   *)
(*                                                                         *)
(* Units.  EAR values and embedding distances are integers in hundredths   *)
(* (0.21 is 21, 0.50 is 50), distances on the ground are whole metres,     *)
(* time.time() is whole seconds.  A coordinate pair is represented by what *)
(* haversine() makes of it: its distance to the reference point, or NaN.   *)
(* A face embedding is a point on a line, so that the Euclidean norm of a  *)
(* difference is an absolute value.                                        *)
(***************************************************************************)
EXTENDS Integers, Sequences, FiniteSets, TLC

VARIABLES
    blink_tracker,   \* gates.py:31   dict user_id -> session
    USER_DB,         \* main.py:78    dict user_id -> list of encodings
    DLIB_AVAILABLE,  \* gates.py:7-15 set once at import
    now,             \* time.time()
    loop,            \* the handler the event loop is running, or None
    pc,              \* per request slot: position in verify_attendance
    req,             \* per request slot: the request being served
    loc,             \* per request slot: the handler's local variables
    called,          \* per request slot: collaborators called so far
    resp,            \* per request slot: what the handler returned
    hist,            \* gates API: per user, the verdict of each call of the session
    origin,          \* gates API: per user, "never", "reset" or "live"
    last             \* gates API: the most recent call

vars == <<blink_tracker, USER_DB, DLIB_AVAILABLE, now, loop, pc, req, loc,
          called, resp, hist, origin, last>>

-----------------------------------------------------------------------------
(* Bounds of the model *)

MaxFrames == 5      \* samples held by all sessions together (gates API)
MaxRefs == 1        \* encodings registered per user
MaxBatch == 3       \* challenge frames in one batch request
MaxCallFrames == 4  \* frames given to gate_liveness_batch called directly
MaxCallRefs == 3    \* encodings given to gate_recognition called directly

(* Program constants *)

HistCap == 30             \* deque(maxlen=30)
EarThreshold == 21        \* ear_threshold=0.21
TimeoutSeconds == 3       \* timeout_seconds=3.0
DefaultMinBlinkFrames == 2
PipelineMinBlinkFrames == 1
ThresholdM == 5000        \* gate_location threshold_m
ReportedThresholdM == 4000
TextureLow == 20
TextureHigh == 250
MatchThreshold == 50      \* 0.50
MinDistInit == 1000       \* min_dist = 10.0
NoFaceDistance == 100     \* 1.0
MinDrop == 6              \* min_drop=0.06
MinBatchFrames == 3
SanityEar == 10           \* ear > 0.1

(* Input domains *)

None == "None"
Users == {"u1", "u2"}
Slots == {"w1", "w2"}
Ears == {10, 21, 30}          \* gates API: closed, at the threshold, open
ClockValues == {0, 3, 4}      \* gates API: elapsed 3 is in time, 4 is not
RequestEars == {10, 30}       \* pipeline: EAR of the primary frame
BatchEars == {24, 30}         \* pipeline: EAR of a challenge frame
RequestClock == {0, 4}        \* pipeline: time.time()
Coords == {"edge", "outside", "nan"}
Variances == {19, 20, 251}
Embeddings == {50}
Queries == {0, 101, 151}       \* at 0.50, 0.51 and 1.01 of the encoding 0.50
Phases == {"WAITING_FOR_OPEN", "EYES_OPEN", "EYES_CLOSING", "EYES_CLOSED",
           "BLINK_COMPLETE"}

\* what decode_image is given: not base64, base64 of something that is no
\* image, or an image with what the detectors and the landmarks make of it
BadBase64 == [kind |-> "bad_base64", face |-> FALSE, ear |-> 0]
NotImage == [kind |-> "not_image", face |-> FALSE, ear |-> 0]
Image(face, ear) == [kind |-> "image", face |-> face, ear |-> ear]

-----------------------------------------------------------------------------
(* Helpers *)

Abs(x) == IF x < 0 THEN 0 - x ELSE x
Max2(a, b) == IF a > b THEN a ELSE b
Min2(a, b) == IF a < b THEN a ELSE b

RECURSIVE SeqMax(_)
SeqMax(s) == IF Len(s) = 1 THEN s[1] ELSE Max2(s[1], SeqMax(Tail(s)))

RECURSIVE SeqMin(_)
SeqMin(s) == IF Len(s) = 1 THEN s[1] ELSE Min2(s[1], SeqMin(Tail(s)))

RECURSIVE SeqSum(_)
SeqSum(s) == IF s = <<>> THEN 0 ELSE s[1] + SeqSum(Tail(s))

Metres(m) == [nan |-> FALSE, m |-> m]
NaN == [nan |-> TRUE, m |-> 0]

\* IEEE comparison: every ordered comparison with NaN is false
FloatGt(d, t) == ~d.nan /\ d.m > t
FloatLe(d, t) == ~d.nan /\ d.m <= t

\* the append of a list, which has no maxlen
DequeAppendUnbounded(q, x) == Append(q, x)

\* deque(maxlen=HistCap).append
DequeAppend(q, x) ==
    IF Len(q) >= HistCap THEN Append(Tail(q), x) ELSE Append(q, x)

\* del d[k]
DictDel(d, k) == [x \in DOMAIN d \ {k} |-> d[x]]

\* d[k] = v
DictSet(d, k, v) == [x \in DOMAIN d \cup {k} |-> IF x = k THEN v ELSE d[x]]

-----------------------------------------------------------------------------
(* core/utils.py *)

\* great-circle distance of the request's coordinates to the reference point
haversine(c) ==
    CASE c = "reference" -> Metres(0)
      [] c = "inside" -> Metres(ThresholdM - 1)
      [] c = "edge" -> Metres(ThresholdM)
      [] c = "outside" -> Metres(ThresholdM + 1)
      [] c = "nan" -> NaN

\* decode_image: raises on bad base64; cv2.imdecode gives None for bytes
\* that are no image
decode_image(b64) ==
    CASE b64.kind = "bad_base64" -> [raised |-> TRUE, img |-> NotImage]
      [] b64.kind = "not_image" -> [raised |-> FALSE, img |-> NotImage]
      [] OTHER -> [raised |-> FALSE, img |-> b64]

\* cv2.cvtColor raises on None
IsArray(frame) == frame.kind = "image"

-----------------------------------------------------------------------------
(* core/gates.py : gate 1 and gate 2 *)

gate_location(c) ==
    LET dist == haversine(c) IN
    IF FloatGt(dist, ThresholdM)
    THEN [valid |-> FALSE, msg |-> "Location distance exceeds threshold",
          dist |-> dist, threshold_m |-> ThresholdM]
    ELSE [valid |-> TRUE, msg |-> "Location verified", dist |-> dist,
          threshold_m |-> ThresholdM]

\* gate_texture with >= for the > of line 110
gate_texture_exclusive(variance) ==
    IF variance < TextureLow
    THEN [valid |-> FALSE, msg |-> "Texture variance too low", variance |-> variance]
    ELSE IF variance >= TextureHigh
    THEN [valid |-> FALSE, msg |-> "Texture variance too high", variance |-> variance]
    ELSE [valid |-> TRUE, msg |-> "Texture verified", variance |-> variance]

gate_texture(variance) ==
    IF variance < TextureLow
    THEN [valid |-> FALSE, msg |-> "Texture variance too low", variance |-> variance]
    ELSE IF variance > TextureHigh
    THEN [valid |-> FALSE, msg |-> "Texture variance too high", variance |-> variance]
    ELSE [valid |-> TRUE, msg |-> "Texture verified", variance |-> variance]

-----------------------------------------------------------------------------
(* core/gates.py : gate 3, streaming *)

\* no entry in blink_tracker
NoSession ==
    [ear_history |-> <<>>, timestamps |-> <<>>, state |-> "none",
     closed_frame_count |-> 0, blink_detected |-> FALSE, start_time |-> 0]

\* blink_tracker.get(user_id)
SessionOf(bt, user_id) == IF user_id \in DOMAIN bt THEN bt[user_id] ELSE NoSession

\* NewSession with a start_time that is not the time of the call
NewSessionEpoch(current_time) ==
    [ear_history |-> <<>>, timestamps |-> <<>>, state |-> "WAITING_FOR_OPEN",
     closed_frame_count |-> 0, blink_detected |-> FALSE,
     start_time |-> 0]

\* lines 195-202
NewSession(current_time) ==
    [ear_history |-> <<>>, timestamps |-> <<>>, state |-> "WAITING_FOR_OPEN",
     closed_frame_count |-> 0, blink_detected |-> FALSE,
     start_time |-> current_time]

\* The state machine of gate_liveness, one operator per state.  tr is the
\* session with the sample already in its history; each gives the session
\* it leaves and the verdict.

\* lines 216-222
WaitingForOpen(tr, ear, ear_threshold) ==
    IF ear > ear_threshold
    THEN [tr |-> [tr EXCEPT !.state = "EYES_OPEN"], valid |-> TRUE,
          msg |-> "Eyes detected and open"]
    ELSE [tr |-> tr, valid |-> TRUE, msg |-> "Waiting for eyes to open"]

\* EyesOpen without the timeout branch of lines 230-232
EyesOpenNoTimeout(tr, ear, elapsed_time, ear_threshold, timeout_seconds) ==
    IF ear < ear_threshold
    THEN [tr |-> [tr EXCEPT !.state = "EYES_CLOSING", !.closed_frame_count = 1],
          valid |-> TRUE, msg |-> "Blink detected - eyes closing"]
    ELSE [tr |-> tr, valid |-> TRUE, msg |-> "Eyes open. Please blink"]

\* lines 224-234
EyesOpen(tr, ear, elapsed_time, ear_threshold, timeout_seconds) ==
    IF ear < ear_threshold
    THEN [tr |-> [tr EXCEPT !.state = "EYES_CLOSING", !.closed_frame_count = 1],
          valid |-> TRUE, msg |-> "Blink detected - eyes closing"]
    ELSE IF elapsed_time > timeout_seconds
    THEN [tr |-> tr, valid |-> FALSE, msg |-> "Timeout: No blink detected"]
    ELSE [tr |-> tr, valid |-> TRUE, msg |-> "Eyes open. Please blink"]

\* EyesClosing with > for the >= of line 241
EyesClosingStrict(tr, ear, ear_threshold, min_blink_frames) ==
    IF ear < ear_threshold
    THEN LET n == tr.closed_frame_count + 1 IN
         IF n > min_blink_frames
         THEN [tr |-> [tr EXCEPT !.closed_frame_count = n, !.state = "EYES_CLOSED"],
               valid |-> TRUE, msg |-> "Eyes closed"]
         ELSE [tr |-> [tr EXCEPT !.closed_frame_count = n],
               valid |-> TRUE, msg |-> "Blink in progress"]
    ELSE [tr |-> [tr EXCEPT !.state = "EYES_OPEN", !.closed_frame_count = 0],
          valid |-> TRUE, msg |-> "False blink detected"]

\* EyesClosing without the closed_frame_count = 0 of line 249
EyesClosingKeepsCount(tr, ear, ear_threshold, min_blink_frames) ==
    IF ear < ear_threshold
    THEN LET n == tr.closed_frame_count + 1 IN
         IF n >= min_blink_frames
         THEN [tr |-> [tr EXCEPT !.closed_frame_count = n, !.state = "EYES_CLOSED"],
               valid |-> TRUE, msg |-> "Eyes closed"]
         ELSE [tr |-> [tr EXCEPT !.closed_frame_count = n],
               valid |-> TRUE, msg |-> "Blink in progress"]
    ELSE [tr |-> [tr EXCEPT !.state = "EYES_OPEN"],
          valid |-> TRUE, msg |-> "False blink detected"]

\* lines 236-251
EyesClosing(tr, ear, ear_threshold, min_blink_frames) ==
    IF ear < ear_threshold
    THEN LET n == tr.closed_frame_count + 1 IN
         IF n >= min_blink_frames
         THEN [tr |-> [tr EXCEPT !.closed_frame_count = n, !.state = "EYES_CLOSED"],
               valid |-> TRUE, msg |-> "Eyes closed"]
         ELSE [tr |-> [tr EXCEPT !.closed_frame_count = n],
               valid |-> TRUE, msg |-> "Blink in progress"]
    ELSE [tr |-> [tr EXCEPT !.state = "EYES_OPEN", !.closed_frame_count = 0],
          valid |-> TRUE, msg |-> "False blink detected"]

\* EyesClosed without the blink_detected = True of line 258
EyesClosedNoFlag(tr, ear, elapsed_time, ear_threshold, timeout_seconds) ==
    IF ear > ear_threshold
    THEN [tr |-> [tr EXCEPT !.state = "BLINK_COMPLETE"],
          valid |-> TRUE, msg |-> "Blink detected successfully"]
    ELSE IF elapsed_time > timeout_seconds
    THEN [tr |-> tr, valid |-> FALSE, msg |-> "Eyes remained closed for too long"]
    ELSE [tr |-> tr, valid |-> TRUE, msg |-> "Eyes closed. Waiting for eyes to open"]

\* EyesClosed with >= for the > of line 259
EyesClosedInclusive(tr, ear, elapsed_time, ear_threshold, timeout_seconds) ==
    IF ear > ear_threshold
    THEN [tr |-> [tr EXCEPT !.state = "BLINK_COMPLETE", !.blink_detected = TRUE],
          valid |-> TRUE, msg |-> "Blink detected successfully"]
    ELSE IF elapsed_time >= timeout_seconds
    THEN [tr |-> tr, valid |-> FALSE, msg |-> "Eyes remained closed for too long"]
    ELSE [tr |-> tr, valid |-> TRUE, msg |-> "Eyes closed. Waiting for eyes to open"]

\* lines 253-264
EyesClosed(tr, ear, elapsed_time, ear_threshold, timeout_seconds) ==
    IF ear > ear_threshold
    THEN [tr |-> [tr EXCEPT !.state = "BLINK_COMPLETE", !.blink_detected = TRUE],
          valid |-> TRUE, msg |-> "Blink detected successfully"]
    ELSE IF elapsed_time > timeout_seconds
    THEN [tr |-> tr, valid |-> FALSE, msg |-> "Eyes remained closed for too long"]
    ELSE [tr |-> tr, valid |-> TRUE, msg |-> "Eyes closed. Waiting for eyes to open"]

\* BlinkStep with the timeout tested in BLINK_COMPLETE too
BlinkStepCompleteTimed(tr, ear, elapsed_time, ear_threshold, timeout_seconds, min_blink_frames) ==
    CASE tr.state = "WAITING_FOR_OPEN" ->
           WaitingForOpen(tr, ear, ear_threshold)
      [] tr.state = "EYES_OPEN" ->
           EyesOpen(tr, ear, elapsed_time, ear_threshold, timeout_seconds)
      [] tr.state = "EYES_CLOSING" ->
           EyesClosing(tr, ear, ear_threshold, min_blink_frames)
      [] tr.state = "EYES_CLOSED" ->
           EyesClosed(tr, ear, elapsed_time, ear_threshold, timeout_seconds)
      [] tr.state = "BLINK_COMPLETE" ->
           IF elapsed_time > timeout_seconds
           THEN [tr |-> tr, valid |-> FALSE, msg |-> "Timeout: No blink detected"]
           ELSE [tr |-> tr, valid |-> TRUE, msg |-> "Liveness verified - blink detected"]
      [] OTHER ->
           [tr |-> tr, valid |-> TRUE, msg |-> "Liveness check in progress"]

\* lines 216-271
BlinkStep(tr, ear, elapsed_time, ear_threshold, timeout_seconds, min_blink_frames) ==
    CASE tr.state = "WAITING_FOR_OPEN" ->
           WaitingForOpen(tr, ear, ear_threshold)
      [] tr.state = "EYES_OPEN" ->
           EyesOpen(tr, ear, elapsed_time, ear_threshold, timeout_seconds)
      [] tr.state = "EYES_CLOSING" ->
           EyesClosing(tr, ear, ear_threshold, min_blink_frames)
      [] tr.state = "EYES_CLOSED" ->
           EyesClosed(tr, ear, elapsed_time, ear_threshold, timeout_seconds)
      [] tr.state = "BLINK_COMPLETE" ->
           [tr |-> tr, valid |-> TRUE, msg |-> "Liveness verified - blink detected"]
      [] OTHER ->
           [tr |-> tr, valid |-> TRUE, msg |-> "Liveness check in progress"]

\* SessionFor without the reset_challenge test of line 194
SessionForIgnoringReset(bt, user_id, current_time, reset_challenge) ==
    IF user_id \notin DOMAIN bt
    THEN NewSession(current_time)
    ELSE bt[user_id]

\* lines 194-202: the session the call works on
SessionFor(bt, user_id, current_time, reset_challenge) ==
    IF reset_challenge \/ user_id \notin DOMAIN bt
    THEN NewSession(current_time)
    ELSE bt[user_id]

\* gate_liveness(frame, user_id, ear_threshold, timeout_seconds,
\*               min_blink_frames, reset_challenge) on the session map bt at
\* time current_time: the map it leaves and the tuple it returns
gate_liveness(bt, dlib, frame, user_id, current_time, ear_threshold, timeout_seconds, min_blink_frames, reset_challenge) ==
    IF ~dlib
    THEN [bt |-> bt, valid |-> FALSE, msg |-> "Liveness check unavailable", ear |-> 0]
    ELSE IF ~frame.face
    THEN [bt |-> bt, valid |-> FALSE, msg |-> "No face detected for liveness", ear |-> 0]
    ELSE IF user_id = None
    THEN IF frame.ear > SanityEar
         THEN [bt |-> bt, valid |-> TRUE, msg |-> "Liveness check complete", ear |-> frame.ear]
         ELSE [bt |-> bt, valid |-> FALSE, msg |-> "Eyes not properly detected", ear |-> frame.ear]
    ELSE
      LET tracker == SessionFor(bt, user_id, current_time, reset_challenge)
          elapsed_time == current_time - tracker.start_time
          sampled == [tracker EXCEPT
                        !.ear_history = DequeAppend(@, frame.ear),
                        !.timestamps = DequeAppend(@, current_time)]
          r == BlinkStep(sampled, frame.ear, elapsed_time, ear_threshold,
                         timeout_seconds, min_blink_frames)
      IN [bt |-> DictSet(bt, user_id, r.tr), valid |-> r.valid, msg |-> r.msg,
          ear |-> frame.ear]

\* check_blink_complete answering True for a subject it does not know
check_blink_complete_default_true(bt, user_id) ==
    IF user_id \notin DOMAIN bt THEN TRUE ELSE bt[user_id].blink_detected

\* lines 366-379
check_blink_complete(bt, user_id) ==
    IF user_id \notin DOMAIN bt THEN FALSE ELSE bt[user_id].blink_detected

\* reset_blink_challenge as blink_tracker.clear()
reset_blink_challenge_all(bt, user_id) ==
    IF user_id \in DOMAIN bt THEN [k \in {} |-> bt[k]] ELSE bt

\* lines 382-390
reset_blink_challenge(bt, user_id) ==
    IF user_id \in DOMAIN bt THEN DictDel(bt, user_id) ELSE bt

NoStatus ==
    [active |-> FALSE, state |-> "No active challenge", blink_detected |-> FALSE,
     elapsed_time |-> 0, ear_history |-> <<>>, current_ear |-> 0,
     frames_processed |-> 0]

get_blink_status(bt, user_id, current_time) ==
    IF user_id \notin DOMAIN bt
    THEN NoStatus
    ELSE LET tracker == bt[user_id] IN
         [active |-> TRUE, state |-> tracker.state,
          blink_detected |-> tracker.blink_detected,
          elapsed_time |-> current_time - tracker.start_time,
          ear_history |-> tracker.ear_history,
          current_ear |-> IF tracker.ear_history # <<>>
                          THEN tracker.ear_history[Len(tracker.ear_history)]
                          ELSE 0,
          frames_processed |-> Len(tracker.ear_history)]

-----------------------------------------------------------------------------
(* core/gates.py : gate 3, batch *)

NoDetails ==
    [given |-> FALSE, ear_history |-> <<>>, blink_count |-> 0, avg_sum |-> 0,
     min_ear |-> 0, max_ear |-> 0, ear_drop |-> 0, reason |-> "null"]

\* _analyze_blink_pattern with > for the >= of lines 352 and 359
_analyze_blink_pattern_strict(ear_values) ==
    IF Len(ear_values) < MinBatchFrames
    THEN [blink |-> FALSE,
          details |-> [NoDetails EXCEPT !.given = TRUE,
                                        !.reason = "Insufficient frames"]]
    ELSE LET max_ear == SeqMax(ear_values)
             min_ear == SeqMin(ear_values)
             drop == max_ear - min_ear
             details == [NoDetails EXCEPT
                           !.given = TRUE,
                           !.blink_count = IF drop > MinDrop THEN 1 ELSE 0,
                           !.avg_sum = SeqSum(ear_values),
                           !.min_ear = min_ear, !.max_ear = max_ear,
                           !.ear_drop = drop]
         IN IF drop > MinDrop
            THEN [blink |-> TRUE, details |-> details]
            ELSE [blink |-> FALSE,
                  details |-> [details EXCEPT
                                 !.reason = "Insufficient EAR drop for blink"]]

\* avg_ear is kept as the sum of the samples (the mean times their number)
_analyze_blink_pattern(ear_values) ==
    IF Len(ear_values) < MinBatchFrames
    THEN [blink |-> FALSE,
          details |-> [NoDetails EXCEPT !.given = TRUE,
                                        !.reason = "Insufficient frames"]]
    ELSE LET max_ear == SeqMax(ear_values)
             min_ear == SeqMin(ear_values)
             drop == max_ear - min_ear
             details == [NoDetails EXCEPT
                           !.given = TRUE,
                           !.blink_count = IF drop >= MinDrop THEN 1 ELSE 0,
                           !.avg_sum = SeqSum(ear_values),
                           !.min_ear = min_ear, !.max_ear = max_ear,
                           !.ear_drop = drop]
         IN IF drop >= MinDrop
            THEN [blink |-> TRUE, details |-> details]
            ELSE [blink |-> FALSE,
                  details |-> [details EXCEPT
                                 !.reason = "Insufficient EAR drop for blink"]]

\* where a loop over the frames stops: the least of the indices, 0 if none
FirstIndex(indices) ==
    IF indices = {} THEN 0 ELSE CHOOSE i \in indices : \A j \in indices : i <= j

NotArray(f) == ~IsArray(f)
NoFace(f) == ~f.face
NotArrayOrNoFace(f) == NotArray(f) \/ NoFace(f)

\* gate_liveness_batch(frames, ear_threshold, min_blink_frames): the two
\* parameters are accepted and not used.  raised: cv2.cvtColor on a None frame.
gate_liveness_batch(dlib, frames, ear_threshold, min_blink_frames) ==
    IF Len(frames) < MinBatchFrames
    THEN [raised |-> FALSE, valid |-> FALSE,
          msg |-> "Insufficient frames for blink detection", details |-> NoDetails]
    ELSE IF ~dlib
    THEN [raised |-> FALSE, valid |-> FALSE,
          msg |-> "Liveness check unavailable", details |-> NoDetails]
    ELSE LET stop == FirstIndex({i \in 1..Len(frames) : NotArrayOrNoFace(frames[i])}) IN
         IF stop # 0 /\ NotArray(frames[stop])
         THEN [raised |-> TRUE, valid |-> FALSE, msg |-> "cv2.error",
               details |-> NoDetails]
         ELSE IF stop # 0
         THEN [raised |-> FALSE, valid |-> FALSE,
               msg |-> "No face detected in frame", details |-> NoDetails]
         ELSE LET ear_history == [i \in 1..Len(frames) |-> frames[i].ear]
                  a == _analyze_blink_pattern(ear_history)
              IN IF ~a.blink
                 THEN [raised |-> FALSE, valid |-> FALSE,
                       msg |-> "No valid blink detected in sequence",
                       details |-> [a.details EXCEPT !.ear_history = ear_history]]
                 ELSE [raised |-> FALSE, valid |-> TRUE,
                       msg |-> "Blink successfully detected",
                       details |-> [a.details EXCEPT !.ear_history = ear_history]]

-----------------------------------------------------------------------------
(* core/gates.py : gate 4 *)

\* the comparison of lines 467-471 made with the first encoding only
MinDistFirstOnly(face_encoding, encs, min_dist) ==
    IF encs = <<>> THEN min_dist
    ELSE Min2(Abs(face_encoding - encs[1]), min_dist)

\* the loop of lines 467-471
RECURSIVE MinDist(_, _, _)
MinDist(face_encoding, encs, min_dist) ==
    IF encs = <<>> THEN min_dist
    ELSE LET dist == Abs(face_encoding - encs[1]) IN
         MinDist(face_encoding, Tail(encs),
                 IF dist < min_dist THEN dist ELSE min_dist)

\* frame: [face: a face is found, enc: its encoding, error: the encoder raises]
gate_recognition(dlib, frame, expected_encoding_list) ==
    IF ~dlib
    THEN [valid |-> FALSE, msg |-> "Face recognition unavailable", distance |-> NoFaceDistance]
    ELSE IF ~frame.face
    THEN [valid |-> FALSE, msg |-> "No face detected", distance |-> NoFaceDistance]
    ELSE IF frame.error
    THEN [valid |-> FALSE, msg |-> "Encoding error", distance |-> NoFaceDistance]
    ELSE IF expected_encoding_list = <<>>
    THEN [valid |-> FALSE, msg |-> "No registered face for user", distance |-> NoFaceDistance]
    ELSE LET min_dist == MinDist(frame.enc, expected_encoding_list, MinDistInit) IN
         IF min_dist <= MatchThreshold
         THEN [valid |-> TRUE, msg |-> "Face Verified", distance |-> min_dist]
         ELSE [valid |-> FALSE, msg |-> "Face Mismatch", distance |-> min_dist]


-----------------------------------------------------------------------------
(* backend/models.py and the responses of backend/main.py *)

AttendanceRequestFields ==
    {"user_id", "latitude", "longitude", "frame", "timestamp",
     "blink_challenge_frames", "challenge_duration"}

\* hasattr(request, name): pydantic drops the fields the model does not declare
HasAttr(name) == name \in AttendanceRequestFields

NoRequest == [user_id |-> None]

\* the request object made of a JSON body
ParseRequest(body) == [f \in DOMAIN body \cap AttendanceRequestFields |-> body[f]]

NoResponse ==
    [kind |-> "none", verified |-> FALSE, confidence |-> 0, gate_passed |-> 0,
     rejection_reason |-> "null"]

\* the fields models.py declares, less the two time fields the model leaves out
AttendanceResponseFields ==
    {"verified", "confidence", "gate_passed", "rejection_reason",
     "blink_detected", "ear_values"}

\* AttendanceResponse(...): like every pydantic model it keeps the declared
\* fields of its keyword arguments; debug_info is not one of them
AttendanceResponse(verified, confidence, gate_passed, rejection_reason, debug_info) ==
    LET kwargs == [verified |-> verified, confidence |-> confidence,
                   gate_passed |-> gate_passed,
                   rejection_reason |-> rejection_reason,
                   debug_info |-> debug_info]
    IN [f \in (DOMAIN kwargs \cap AttendanceResponseFields) \cup {"kind"} |->
          IF f = "kind" THEN "response" ELSE kwargs[f]]

HTTPException(status_code) ==
    [NoResponse EXCEPT !.kind = status_code]

\* lines 174-185
LocationRejected(loc_msg) ==
    AttendanceResponse(FALSE, 0, 0, loc_msg,
                       [threshold_meters |-> ReportedThresholdM])

\* TextureRejected with the gate index of the liveness rejections
TextureRejectedAsGate2(tex_msg) ==
    AttendanceResponse(FALSE, 0, 2, tex_msg, [expected_range |-> "20-250"])

\* lines 204-215
TextureRejected(tex_msg) ==
    AttendanceResponse(FALSE, 0, 1, tex_msg, [expected_range |-> "20-250"])

\* lines 229-236, 245-253, 258-265 and 287-295
LivenessRejected(live_msg, live_details) ==
    AttendanceResponse(FALSE, 0, 2, live_msg, live_details)

\* lines 297-309
ChallengeInProgress ==
    AttendanceResponse(FALSE, 0, 2, "Blink challenge in progress",
                       [message |-> "Continue sending frames"])

\* lines 326-344
NotRegistered ==
    AttendanceResponse(FALSE, 0, 3, "User is not registered",
                       [suggestion |-> "register"])

\* line 357 without its max
RejectConfidenceUnclamped(distance) == 100 - distance

\* float(max(0.0, 1.0 - distance)), line 357
RejectConfidence(distance) == Max2(0, 100 - distance)

\* float(max(0.0, min(1.0, 1.0 - distance))), line 374
AcceptConfidence(distance) == Max2(0, Min2(100, 100 - distance))

\* lines 355-368
IdentityRejected(rec_msg, distance) ==
    AttendanceResponse(FALSE, RejectConfidence(distance), 3, rec_msg,
                       [face_distance |-> distance])

\* lines 382-394
Verified(distance) ==
    AttendanceResponse(TRUE, AcceptConfidence(distance), 4, "null",
                       [face_distance |-> distance])

\* lines 351-394: the response made of what gate_recognition returned
RecognitionResponse(r) ==
    IF ~r.valid THEN IdentityRejected(r.msg, r.distance) ELSE Verified(r.distance)

\* Gate4Response without the test of line 324
Gate4ResponseNoLookupTest(dlib, frame, user_encodings) ==
    RecognitionResponse(gate_recognition(dlib, frame, user_encodings))

\* lines 321-394: what a request that passed gates 1 to 3 is answered
Gate4Response(dlib, frame, user_encodings) ==
    IF user_encodings = <<>>
    THEN NotRegistered
    ELSE RecognitionResponse(gate_recognition(dlib, frame, user_encodings))

\* the handler's locals; prior is the session the subject had when the
\* handler started (NoSession if none) and prior_len the number of samples
\* it held
NoLocals ==
    [loc_valid |-> FALSE, loc_msg |-> "null", dist |-> Metres(0),
     frame_ok |-> FALSE,
     tex_valid |-> FALSE, tex_msg |-> "null", variance |-> 0, mode |-> "none",
     face |-> FALSE, ear |-> 0,
     live_valid |-> FALSE, live_msg |-> "null", blink_complete |-> FALSE,
     user_encodings |-> <<>>, rec_valid |-> FALSE, rec_msg |-> "null",
     distance |-> 0,
     prior_len |-> 0, prior |-> NoSession]

-----------------------------------------------------------------------------
(* State *)

EmptyDict == [x \in {} |-> 0]

NoCall ==
    [op |-> "none", user_id |-> None, face |-> FALSE, reset_challenge |-> FALSE,
     origin |-> "never", valid |-> FALSE, msg |-> "null", status |-> NoStatus]

Init ==
    /\ blink_tracker = EmptyDict
    /\ USER_DB = EmptyDict
    /\ DLIB_AVAILABLE \in BOOLEAN
    /\ now = 0
    /\ loop = None
    /\ pc = [w \in Slots |-> "idle"]
    /\ req = [w \in Slots |-> NoRequest]
    /\ loc = [w \in Slots |-> NoLocals]
    /\ called = [w \in Slots |-> <<>>]
    /\ resp = [w \in Slots |-> NoResponse]
    /\ hist = [u \in Users |-> <<>>]
    /\ origin = [u \in Users |-> "never"]
    /\ last = NoCall

\* time.time() moves on
Tick(clock) ==
    /\ \E t \in clock : t > now /\ now' = t
    /\ UNCHANGED <<blink_tracker, USER_DB, DLIB_AVAILABLE, loop, pc, req, loc,
                   called, resp, hist, origin, last>>

-----------------------------------------------------------------------------
(* backend/main.py : verify_attendance *)

\* handlers started while another one is running, as threads would be
LoopNeverBusy == TRUE

\* The handlers are `async def` and never await: the event loop runs each of
\* them to its return before it starts another.
LoopFree == loop = None

\* the handler returns `r`
Return(w, r) ==
    /\ resp' = [resp EXCEPT ![w] = r]
    /\ pc' = [pc EXCEPT ![w] = "done"]

Goto(w, label) ==
    /\ pc' = [pc EXCEPT ![w] = label]
    /\ UNCHANGED resp

Call(w, name) == called' = [called EXCEPT ![w] = Append(@, name)]

\* a request for u reaches the server
Arrive(w, u, cip) ==
    /\ pc[w] = "idle"
    /\ req' = [req EXCEPT ![w] =
                 ParseRequest([user_id |-> u, challenge_in_progress |-> cip])]
    /\ pc' = [pc EXCEPT ![w] = "queued"]
    /\ UNCHANGED <<blink_tracker, USER_DB, DLIB_AVAILABLE, now, loop, loc,
                   called, resp, hist, origin, last>>

\* the event loop starts the handler
Start(w) ==
    /\ pc[w] = "queued"
    /\ LoopFree
    /\ loop' = w
    /\ pc' = [pc EXCEPT ![w] = "gate1"]
    /\ loc' = [loc EXCEPT ![w] =
                 [NoLocals EXCEPT
                    !.prior = SessionOf(blink_tracker, req[w].user_id),
                    !.prior_len =
                      Len(SessionOf(blink_tracker, req[w].user_id).ear_history)]]
    /\ called' = [called EXCEPT ![w] = <<>>]
    /\ UNCHANGED <<blink_tracker, USER_DB, DLIB_AVAILABLE, now, req, resp,
                   hist, origin, last>>

\* Gate1 without the early return of lines 173-185
Gate1NoShortCircuit(w) ==
    /\ pc[w] = "gate1"
    /\ \E c \in Coords :
         LET r == gate_location(c) IN
         loc' = [loc EXCEPT ![w].loc_valid = r.valid, ![w].loc_msg = r.msg,
                            ![w].dist = r.dist]
    /\ Goto(w, "decode")
    /\ Call(w, "gate_location")
    /\ UNCHANGED <<blink_tracker, USER_DB, DLIB_AVAILABLE, now, loop, req,
                   hist, origin, last>>

\* lines 171-185
Gate1(w) ==
    /\ pc[w] = "gate1"
    /\ \E c \in Coords :
         LET r == gate_location(c) IN
         /\ loc' = [loc EXCEPT ![w].loc_valid = r.valid, ![w].loc_msg = r.msg,
                               ![w].dist = r.dist]
         /\ IF ~r.valid
            THEN Return(w, LocationRejected(r.msg))
            ELSE Goto(w, "decode")
    /\ Call(w, "gate_location")
    /\ UNCHANGED <<blink_tracker, USER_DB, DLIB_AVAILABLE, now, loop, req,
                   hist, origin, last>>

\* lines 190-196
Decode(w) ==
    /\ pc[w] = "decode"
    /\ \E b64 \in {BadBase64, NotImage, Image(FALSE, 0)} :
         LET d == decode_image(b64) IN
         IF d.raised
         THEN /\ Return(w, HTTPException("400"))
              /\ UNCHANGED loc
         ELSE /\ Goto(w, "gate2")
              /\ loc' = [loc EXCEPT ![w].frame_ok = IsArray(d.img)]
    /\ Call(w, "decode_image")
    /\ UNCHANGED <<blink_tracker, USER_DB, DLIB_AVAILABLE, now, loop, req,
                   hist, origin, last>>

\* lines 201-215; gate_texture raises on a frame that is None and nothing
\* catches it
Gate2(w) ==
    /\ pc[w] = "gate2"
    /\ IF ~loc[w].frame_ok
       THEN /\ Return(w, HTTPException("500"))
            /\ UNCHANGED loc
       ELSE \E variance \in Variances :
              LET r == gate_texture(variance) IN
              /\ loc' = [loc EXCEPT ![w].tex_valid = r.valid,
                                    ![w].tex_msg = r.msg,
                                    ![w].variance = r.variance]
              /\ IF ~r.valid
                 THEN Return(w, TextureRejected(r.msg))
                 ELSE Goto(w, "gate3")
    /\ Call(w, "gate_texture")
    /\ UNCHANGED <<blink_tracker, USER_DB, DLIB_AVAILABLE, now, loop, req,
                   hist, origin, last>>


\* the frames a batch request can carry
FrameInputs ==
    {BadBase64, NotImage, Image(FALSE, 0)} \cup {Image(TRUE, e) : e \in BatchEars}

\* the frames of a batch that do not reach the EAR computation
Unreadable(frames) ==
    {i \in 1..Len(frames) : frames[i] \in {BadBase64, NotImage, Image(FALSE, 0)}}

\* up to MaxBatch frames, at most one of them unreadable
BatchInputs ==
    UNION {{frames \in [1..n -> FrameInputs] : Cardinality(Unreadable(frames)) <= 1} :
           n \in 1..MaxBatch}

\* lines 220-265: blink_challenge_frames is a non-empty list
Gate3Batch(w) ==
    /\ pc[w] = "gate3"
    /\ \E frames \in BatchInputs :
         LET bad == FirstIndex({i \in 1..Len(frames) : decode_image(frames[i]).raised})
             challenge_frames ==
                 [i \in 1..Len(frames) |-> decode_image(frames[i]).img]
             r == gate_liveness_batch(DLIB_AVAILABLE, challenge_frames,
                                      EarThreshold, PipelineMinBlinkFrames)
         IN IF bad # 0
            THEN /\ Return(w, LivenessRejected("Failed to decode frame", NoDetails))
                 /\ Call(w, "decode_challenge_frames")
                 /\ loc' = [loc EXCEPT ![w].mode = "batch"]
            ELSE /\ called' = [called EXCEPT ![w] =
                                 @ \o <<"decode_challenge_frames", "gate_liveness_batch">>]
                 /\ loc' = [loc EXCEPT ![w].mode = "batch",
                                       ![w].live_valid = ~r.raised /\ r.valid,
                                       ![w].live_msg = r.msg]
                 /\ IF r.raised
                    THEN Return(w, LivenessRejected("Liveness check error", NoDetails))
                    ELSE IF ~r.valid
                    THEN Return(w, LivenessRejected(r.msg, r.details))
                    ELSE Goto(w, "gate4")
    /\ UNCHANGED <<blink_tracker, USER_DB, DLIB_AVAILABLE, now, loop, req,
                   hist, origin, last>>

\* line 269
is_first_frame == ~HasAttr("challenge_in_progress")

\* lines 268-272: blink_challenge_frames is None or empty
Gate3Stream(w) ==
    /\ pc[w] = "gate3"
    /\ blink_tracker' = IF is_first_frame
                        THEN reset_blink_challenge(blink_tracker, req[w].user_id)
                        ELSE blink_tracker
    /\ loc' = [loc EXCEPT ![w].mode = "stream"]
    /\ Goto(w, "live_gate")
    /\ UNCHANGED <<USER_DB, DLIB_AVAILABLE, now, loop, req, called,
                   hist, origin, last>>

\* lines 274-280
LiveGate(w) ==
    /\ pc[w] = "live_gate"
    /\ \E frame \in {Image(FALSE, 0)} \cup {Image(TRUE, e) : e \in RequestEars} :
         LET r == gate_liveness(blink_tracker, DLIB_AVAILABLE, frame,
                                req[w].user_id, now, EarThreshold,
                                TimeoutSeconds, PipelineMinBlinkFrames, FALSE)
         IN /\ blink_tracker' = r.bt
            /\ loc' = [loc EXCEPT ![w].face = DLIB_AVAILABLE /\ frame.face,
                                  ![w].live_valid = r.valid,
                                  ![w].live_msg = r.msg,
                                  ![w].ear = r.ear]
    /\ Call(w, "gate_liveness")
    /\ Goto(w, "live_check")
    /\ UNCHANGED <<USER_DB, DLIB_AVAILABLE, now, loop, req, hist, origin, last>>

\* lines 282-311
LiveCheck(w) ==
    /\ pc[w] = "live_check"
    /\ LET blink_complete == check_blink_complete(blink_tracker, req[w].user_id) IN
       /\ loc' = [loc EXCEPT ![w].blink_complete = blink_complete]
       /\ IF ~blink_complete
          THEN IF ~loc[w].live_valid
               THEN /\ blink_tracker' =
                         reset_blink_challenge(blink_tracker, req[w].user_id)
                    /\ Return(w, LivenessRejected(loc[w].live_msg, NoDetails))
               ELSE /\ UNCHANGED blink_tracker
                    /\ Return(w, ChallengeInProgress)
          ELSE /\ UNCHANGED blink_tracker
               /\ Goto(w, "gate4")
    /\ UNCHANGED <<USER_DB, DLIB_AVAILABLE, now, loop, req, called,
                   hist, origin, last>>

\* USER_DB.get(user_id, [])
DictGet(d, k) == IF k \in DOMAIN d THEN d[k] ELSE <<>>

\* lines 321-344
Gate4(w) ==
    /\ pc[w] = "gate4"
    /\ LET user_encodings == DictGet(USER_DB, req[w].user_id) IN
       /\ loc' = [loc EXCEPT ![w].user_encodings = user_encodings]
       /\ IF user_encodings = <<>>
          THEN Return(w, NotRegistered)
          ELSE Goto(w, "recognize")
    /\ Call(w, "USER_DB.get")
    /\ UNCHANGED <<blink_tracker, USER_DB, DLIB_AVAILABLE, now, loop, req,
                   hist, origin, last>>

\* what the detector (upsampled once) and the encoder make of the frame
FaceInputs ==
    {[face |-> FALSE, enc |-> 0, error |-> FALSE],
     [face |-> TRUE, enc |-> 0, error |-> TRUE]}
    \cup {[face |-> TRUE, enc |-> q, error |-> FALSE] : q \in Queries}

\* lines 349-394
Recognize(w) ==
    /\ pc[w] = "recognize"
    /\ \E frame \in FaceInputs :
         LET r == gate_recognition(DLIB_AVAILABLE, frame, loc[w].user_encodings) IN
         /\ loc' = [loc EXCEPT ![w].rec_valid = r.valid, ![w].rec_msg = r.msg,
                               ![w].distance = r.distance]
         /\ Return(w, RecognitionResponse(r))
    /\ blink_tracker' = reset_blink_challenge(blink_tracker, req[w].user_id)
    /\ Call(w, "gate_recognition")
    /\ UNCHANGED <<USER_DB, DLIB_AVAILABLE, now, loop, req, hist, origin, last>>

\* the handler has returned: the event loop is free again
Finish(w) ==
    /\ pc[w] = "done"
    /\ pc' = [pc EXCEPT ![w] = "idle"]
    /\ loop' = IF loop = w THEN None ELSE loop
    /\ req' = [req EXCEPT ![w] = NoRequest]
    /\ loc' = [loc EXCEPT ![w] = NoLocals]
    /\ called' = [called EXCEPT ![w] = <<>>]
    /\ resp' = [resp EXCEPT ![w] = NoResponse]
    /\ UNCHANGED <<blink_tracker, USER_DB, DLIB_AVAILABLE, now, hist, origin, last>>

-----------------------------------------------------------------------------
(* backend/main.py : the other endpoints that touch the shared state *)

\* /api/register, lines 402-448: a frame with a face adds its encoding
register_user(u) ==
    /\ LoopFree
    /\ DLIB_AVAILABLE
    /\ Len(DictGet(USER_DB, u)) < MaxRefs
    /\ \E encoding \in Embeddings :
         USER_DB' = DictSet(USER_DB, u, Append(DictGet(USER_DB, u), encoding))
    /\ UNCHANGED <<blink_tracker, DLIB_AVAILABLE, now, loop, pc, req, loc,
                   called, resp, hist, origin, last>>

\* DELETE /api/user/{user_id}, lines 486-499
delete_user(u) ==
    /\ LoopFree
    /\ u \in DOMAIN USER_DB
    /\ USER_DB' = DictDel(USER_DB, u)
    /\ blink_tracker' = reset_blink_challenge(blink_tracker, u)
    /\ UNCHANGED <<DLIB_AVAILABLE, now, loop, pc, req, loc, called, resp,
                   hist, origin, last>>

\* /api/reset-challenge/{user_id}, lines 527-533
reset_challenge(u) ==
    /\ LoopFree
    /\ blink_tracker' = reset_blink_challenge(blink_tracker, u)
    /\ UNCHANGED <<USER_DB, DLIB_AVAILABLE, now, loop, pc, req, loc, called,
                   resp, hist, origin, last>>

Next ==
    \/ Tick(RequestClock)
    \/ \E w \in Slots, u \in Users, cip \in BOOLEAN : Arrive(w, u, cip)
    \/ \E w \in Slots : Start(w)
    \/ \E w \in Slots : Gate1(w)
    \/ \E w \in Slots : Decode(w)
    \/ \E w \in Slots : Gate2(w)
    \/ \E w \in Slots : Gate3Batch(w)
    \/ \E w \in Slots : Gate3Stream(w)
    \/ \E w \in Slots : LiveGate(w)
    \/ \E w \in Slots : LiveCheck(w)
    \/ \E w \in Slots : Gate4(w)
    \/ \E w \in Slots : Recognize(w)
    \/ \E w \in Slots : Finish(w)
    \/ \E u \in Users : register_user(u)
    \/ \E u \in Users : delete_user(u)
    \/ \E u \in Users : reset_challenge(u)

Spec == Init /\ [][Next]_vars


-----------------------------------------------------------------------------
(* core/gates.py called directly, as a library                               *)
(*                                                                           *)
(* hist[u] lists the verdict of every gate_liveness call made on u's current *)
(* session, origin[u] says whether u has never had a session ("never"), has  *)
(* had it discarded by reset_blink_challenge ("reset") or has one ("live"),  *)
(* and last is the most recent call.                                         *)

MinBlinkFrames == {PipelineMinBlinkFrames, DefaultMinBlinkFrames}
ApiUsers == {"u1"}

RECURSIVE TotalSamples(_, _)
TotalSamples(bt, users) ==
    IF users = {} THEN 0
    ELSE LET u == CHOOSE x \in users : TRUE IN
         Len(bt[u].ear_history) + TotalSamples(bt, users \ {u})

Verdict(r, u, t, mbf) ==
    [valid |-> r.valid, msg |-> r.msg, state |-> r.bt[u].state,
     blink_detected |-> r.bt[u].blink_detected,
     elapsed_time |-> t - r.bt[u].start_time, min_blink_frames |-> mbf,
     ear |-> r.ear, current_time |-> t,
     closed_frame_count |-> r.bt[u].closed_frame_count,
     start_time |-> r.bt[u].start_time]

\* the caller passes the same min_blink_frames on every call of a session
SameParameters(u, mbf, reset) ==
    IF reset \/ u \notin DOMAIN blink_tracker
    THEN TRUE
    ELSE mbf = hist[u][Len(hist[u])].min_blink_frames

\* gate_liveness(frame, u, min_blink_frames=mbf, reset_challenge=reset)
GateLivenessCall(u, frame, mbf, reset) ==
    /\ SameParameters(u, mbf, reset)
    /\ LET r == gate_liveness(blink_tracker, DLIB_AVAILABLE, frame, u, now,
                              EarThreshold, TimeoutSeconds, mbf, reset)
           sampled == DLIB_AVAILABLE /\ frame.face
           fresh == reset \/ u \notin DOMAIN blink_tracker
       IN /\ blink_tracker' = r.bt
          /\ hist' = IF sampled
                     THEN [hist EXCEPT ![u] = Append(IF fresh THEN <<>> ELSE @,
                                                     Verdict(r, u, now, mbf))]
                     ELSE hist
          /\ origin' = IF sampled THEN [origin EXCEPT ![u] = "live"] ELSE origin
          /\ last' = [op |-> "gate_liveness", user_id |-> u, face |-> sampled,
                      reset_challenge |-> reset, origin |-> origin[u],
                      valid |-> r.valid, msg |-> r.msg, status |-> NoStatus]
    /\ UNCHANGED <<USER_DB, DLIB_AVAILABLE, now, loop, pc, req, loc, called, resp>>

\* the call, while the sessions hold fewer than MaxFrames samples
CallGateLiveness(u, frame, mbf, reset) ==
    /\ TotalSamples(blink_tracker, DOMAIN blink_tracker) < MaxFrames
    /\ GateLivenessCall(u, frame, mbf, reset)

\* reset_blink_challenge(u)
CallResetBlinkChallenge(u) ==
    /\ blink_tracker' = reset_blink_challenge(blink_tracker, u)
    /\ hist' = [hist EXCEPT ![u] = <<>>]
    /\ origin' = [origin EXCEPT ![u] = IF @ = "never" THEN "never" ELSE "reset"]
    /\ last' = [NoCall EXCEPT !.op = "reset_blink_challenge", !.user_id = u,
                              !.origin = origin[u]]
    /\ UNCHANGED <<USER_DB, DLIB_AVAILABLE, now, loop, pc, req, loc, called, resp>>

\* check_blink_complete(u): the function assigns nothing, and the answer is
\* kept in last.valid
CallCheckBlinkComplete(u) ==
    /\ blink_tracker' = blink_tracker
    /\ last' = [NoCall EXCEPT !.op = "check_blink_complete", !.user_id = u,
                              !.origin = origin[u],
                              !.valid = check_blink_complete(blink_tracker, u)]
    /\ UNCHANGED <<USER_DB, DLIB_AVAILABLE, now, loop, pc, req, loc, called, resp,
                   hist, origin>>

\* get_blink_status(u): the function assigns nothing, and the dict it
\* returns is kept in last.status
CallGetBlinkStatus(u) ==
    /\ blink_tracker' = blink_tracker
    /\ LET status == get_blink_status(blink_tracker, u, now) IN
       last' = [NoCall EXCEPT !.op = "get_blink_status", !.user_id = u,
                              !.origin = origin[u], !.valid = status.active,
                              !.status = status]
    /\ UNCHANGED <<USER_DB, DLIB_AVAILABLE, now, loop, pc, req, loc, called, resp,
                   hist, origin>>

LivenessFrames == {Image(FALSE, 0)} \cup {Image(TRUE, e) : e \in Ears}

NextGate ==
    \/ Tick(ClockValues)
    \/ \E u \in ApiUsers, frame \in LivenessFrames, mbf \in MinBlinkFrames,
          reset \in BOOLEAN : CallGateLiveness(u, frame, mbf, reset)
    \/ \E u \in ApiUsers : CallResetBlinkChallenge(u)
    \/ \E u \in ApiUsers : CallCheckBlinkComplete(u)
    \/ \E u \in ApiUsers : CallGetBlinkStatus(u)

SpecGate == Init /\ [][NextGate]_vars

-----------------------------------------------------------------------------
(* core/gates.py : a long session                                            *)
(*                                                                           *)
(* The histories are deques of HistCap entries.  In this specification a     *)
(* session first sees PrefillLen frames with a face and open eyes, all at    *)
(* time 0, and then MaxFrames calls of any kind at any time, so that the     *)
(* deques fill up and roll.  A session started later sees MaxFrames calls.   *)

PrefillLen == HistCap - 2
PrefillUser == "u1"
PrefillFrame == Image(TRUE, CHOOSE e \in Ears : e > EarThreshold)

\* the first PrefillLen calls are being made
Prefilling == now = 0 /\ Len(hist[PrefillUser]) < PrefillLen

\* one of the first PrefillLen calls
PrefillCall ==
    /\ Prefilling
    /\ \E mbf \in MinBlinkFrames :
         GateLivenessCall(PrefillUser, PrefillFrame, mbf, FALSE)

\* time.time() moves on, once the first calls are made
TickLong == ~Prefilling /\ Tick(ClockValues)

\* the number of calls a session may see
CallBudget(u) ==
    IF Len(hist[u]) >= PrefillLen THEN PrefillLen + MaxFrames ELSE MaxFrames

CallGateLivenessLong(u, frame, mbf, reset) ==
    /\ ~Prefilling
    /\ Len(hist[u]) < CallBudget(u)
    /\ GateLivenessCall(u, frame, mbf, reset)

\* frames with a face, eyes closed or open
LongFrames == {Image(TRUE, e) : e \in RequestEars}

NextLong ==
    \/ PrefillCall
    \/ TickLong
    \/ \E u \in ApiUsers, frame \in LongFrames, mbf \in MinBlinkFrames,
          reset \in BOOLEAN : CallGateLivenessLong(u, frame, mbf, reset)

SpecLong == Init /\ [][NextLong]_vars

-----------------------------------------------------------------------------
(* core/gates.py : the gates that keep no state, called directly             *)
(*                                                                           *)
(* One call is made on the freshly imported module; last is that call: its   *)
(* name, its arguments and what it returned.                                 *)

CallCoords == {"reference", "inside", "edge", "outside", "nan"}
CallVariances == {0, 19, 20, 100, 250, 251}
CallEars == {10, 26, 30, 31, 32}
CallFrames == {Image(FALSE, 0)} \cup {Image(TRUE, e) : e \in CallEars}
EarThresholds == {EarThreshold, 30}     \* the pipeline's 0.21, the default 0.30
CallEmbeddings == {0, 100, 200}
CallQueries == {50, 151, 1300}

\* the lists of at most n elements of S
SeqsUpTo(S, n) == UNION {[1..k -> S] : k \in 0..n}

\* the variables a direct call does not touch
Untouched ==
    <<blink_tracker, USER_DB, DLIB_AVAILABLE, now, loop, pc, req, loc, called,
      resp, hist, origin>>

\* what the detector and the encoder make of the frame gate_recognition gets
RecognitionFrames ==
    {[face |-> FALSE, enc |-> 0, error |-> FALSE],
     [face |-> TRUE, enc |-> 0, error |-> TRUE]}
    \cup {[face |-> TRUE, enc |-> q, error |-> FALSE] : q \in CallQueries}

\* gate_location(lat, lon)
CallGateLocation ==
    /\ last = NoCall
    /\ \E c \in CallCoords :
         last' = [op |-> "gate_location", c |-> c, r |-> gate_location(c)]
    /\ UNCHANGED Untouched

\* gate_texture(frame)
CallGateTexture ==
    /\ last = NoCall
    /\ \E variance \in CallVariances :
         last' = [op |-> "gate_texture", variance |-> variance,
                  r |-> gate_texture(variance)]
    /\ UNCHANGED Untouched

\* gate_liveness_batch(frames, ear_threshold, min_blink_frames)
CallGateLivenessBatch ==
    /\ last = NoCall
    /\ \E frames \in SeqsUpTo(CallFrames, MaxCallFrames),
          ear_threshold \in EarThresholds, min_blink_frames \in MinBlinkFrames :
         last' = [op |-> "gate_liveness_batch", frames |-> frames,
                  ear_threshold |-> ear_threshold,
                  min_blink_frames |-> min_blink_frames,
                  r |-> gate_liveness_batch(DLIB_AVAILABLE, frames,
                                            ear_threshold, min_blink_frames)]
    /\ UNCHANGED Untouched

\* gate_recognition(frame, expected_encoding_list)
CallGateRecognition ==
    /\ last = NoCall
    /\ \E frame \in RecognitionFrames,
          expected_encoding_list \in SeqsUpTo(CallEmbeddings, MaxCallRefs) :
         last' = [op |-> "gate_recognition", frame |-> frame,
                  expected_encoding_list |-> expected_encoding_list,
                  r |-> gate_recognition(DLIB_AVAILABLE, frame,
                                         expected_encoding_list)]
    /\ UNCHANGED Untouched

\* lines 321-394 of verify_attendance for a subject whose stored encodings
\* are user_encodings
CallGate4 ==
    /\ last = NoCall
    /\ \E frame \in RecognitionFrames,
          user_encodings \in SeqsUpTo(CallEmbeddings, MaxCallRefs) :
         last' = [op |-> "gate4", frame |-> frame,
                  expected_encoding_list |-> user_encodings,
                  r |-> Gate4Response(DLIB_AVAILABLE, frame, user_encodings)]
    /\ UNCHANGED Untouched

NextCalls ==
    \/ CallGateLocation
    \/ CallGateTexture
    \/ CallGateLivenessBatch
    \/ CallGateRecognition
    \/ CallGate4

SpecCalls == Init /\ [][NextCalls]_vars


-----------------------------------------------------------------------------
(* Properties of the pipeline (specification Spec) *)

\* the liveness gate was satisfied in the request whose locals are l
LivenessOk(l) ==
    \/ l.mode = "batch" /\ l.live_valid
    \/ l.mode = "stream" /\ l.blink_complete

\* the number of gates that passed in the request whose locals are l
GatesPassed(l) ==
    IF ~l.loc_valid THEN 0
    ELSE IF ~l.tex_valid THEN 1
    ELSE IF ~LivenessOk(l) THEN 2
    ELSE IF ~l.rec_valid THEN 3
    ELSE 4

Responded(w) == pc[w] = "done" /\ resp[w].kind = "response"

Has(w, name) == \E i \in 1..Len(called[w]) : called[w][i] = name

IsPrefix(s, t) == Len(s) <= Len(t) /\ \A i \in 1..Len(s) : s[i] = t[i]

StreamOrder ==
    <<"gate_location", "decode_image", "gate_texture", "gate_liveness",
      "USER_DB.get", "gate_recognition">>

BatchOrder ==
    <<"gate_location", "decode_image", "gate_texture", "decode_challenge_frames",
      "gate_liveness_batch", "USER_DB.get", "gate_recognition">>

\* C1: a response has verified = true only if, in that request, the location
\* gate passed with distance <= threshold, the texture gate passed, the
\* liveness gate was satisfied, the subject has a non-empty reference set and
\* the minimum embedding distance is <= 0.50.
C1_AcceptanceSafe ==
    \A w \in Slots :
      (Responded(w) /\ resp[w].verified) =>
        /\ loc[w].loc_valid
        /\ FloatLe(loc[w].dist, ThresholdM)
        /\ loc[w].tex_valid
        /\ loc[w].variance >= TextureLow /\ loc[w].variance <= TextureHigh
        /\ LivenessOk(loc[w])
        /\ loc[w].user_encodings # <<>>
        /\ loc[w].rec_valid
        /\ loc[w].distance <= MatchThreshold

\* the rejection reason the first failing gate of the request gives
ReasonOk(w) ==
    LET l == loc[w]
        reason == resp[w].rejection_reason
    IN CASE ~l.loc_valid -> reason = l.loc_msg /\ called[w] = <<"gate_location">>
         [] l.loc_valid /\ ~l.tex_valid -> reason = l.tex_msg
         [] l.loc_valid /\ l.tex_valid /\ ~LivenessOk(l) ->
              IF Has(w, "gate_liveness_batch")
              THEN reason = (IF l.live_msg = "cv2.error"
                             THEN "Liveness check error" ELSE l.live_msg)
              ELSE IF Has(w, "gate_liveness")
              THEN reason = (IF l.live_valid
                             THEN "Blink challenge in progress" ELSE l.live_msg)
              ELSE reason = "Failed to decode frame"
         [] OTHER ->
              IF Has(w, "gate_recognition")
              THEN reason = l.rec_msg
              ELSE reason = "User is not registered"

\* C2: the gates are evaluated in the order Location, Texture, Liveness,
\* Identity, each at most once per request, gate k only if gates 1..k-1
\* passed; the first failing gate ends the request and gives the rejection
\* reason; a request whose location gate fails calls nothing else.
C2_GateOrder ==
    \A w \in Slots :
      /\ IsPrefix(called[w], StreamOrder) \/ IsPrefix(called[w], BatchOrder)
      /\ Len(called[w]) > 1 => loc[w].loc_valid
      /\ Len(called[w]) > 3 => loc[w].tex_valid
      /\ (Has(w, "USER_DB.get") \/ Has(w, "gate_recognition")) => LivenessOk(loc[w])
      /\ Has(w, "gate_recognition") => loc[w].user_encodings # <<>>
      /\ (Responded(w) /\ ~resp[w].verified) => ReasonOk(w)
      /\ pc[w] \in {"decode", "gate2", "gate3", "live_gate", "live_check",
                    "gate4", "recognize"} => GatesPassed(loc[w]) >=
            (CASE pc[w] \in {"decode", "gate2"} -> 1
               [] pc[w] \in {"gate3", "live_gate", "live_check"} -> 2
               [] OTHER -> 3)

\* a request the location gate rejected
C2_Witness ==
    \E w \in Slots :
      /\ Responded(w) /\ ~loc[w].loc_valid
      /\ called[w] = <<"gate_location">>
      /\ resp[w].gate_passed = 0

\* C4: gate_passed is in 0..4 and is the number of gates that passed before
\* the request ended; verified holds exactly when gate_passed = 4, and then
\* rejection_reason is null.
C4_GatePassed ==
    \A w \in Slots :
      Responded(w) =>
        /\ resp[w].gate_passed \in 0..4
        /\ resp[w].gate_passed = GatesPassed(loc[w])
        /\ resp[w].verified <=> resp[w].gate_passed = 4
        /\ resp[w].verified => resp[w].rejection_reason = "null"
        /\ ~resp[w].verified => resp[w].rejection_reason # "null"

\* a texture rejection (gate_passed = 1)
C4_Witness ==
    \E w \in Slots :
      /\ Responded(w) /\ resp[w].gate_passed = 1
      /\ loc[w].loc_valid /\ ~loc[w].tex_valid


\* the session of subject u in the map bt is the one in the map bt2
SameSession(bt, bt2, u) ==
    /\ (u \in DOMAIN bt) = (u \in DOMAIN bt2)
    /\ u \in DOMAIN bt => bt[u] = bt2[u]

\* C3: successive single-frame requests for one subject advance the subject's
\* session (they do not restart it), so that a blink spread over several
\* requests completes the challenge: a streaming request that finds the
\* session an earlier request left in progress adds its sample to it.
C3_StreamingAdvances ==
    \A w \in Slots :
      (pc[w] = "live_check" /\ loc[w].face /\ loc[w].prior_len > 0) =>
        /\ req[w].user_id \in DOMAIN blink_tracker
        /\ Len(blink_tracker[req[w].user_id].ear_history) = loc[w].prior_len + 1

\* the part of a streaming request between its reset and its last use of
\* the session
InSessionSection(w) == pc[w] \in {"live_gate", "live_check"}

\* C8: access to a session is serialized: while a request is between its
\* existence check and its blink-complete query, no other request, reset or
\* delete changes or removes the session of its subject.
C8_Serialized ==
    [][\A w \in Slots :
         (InSessionSection(w) /\ pc'[w] = pc[w]) =>
           SameSession(blink_tracker, blink_tracker', req[w].user_id)]_vars

\* two requests for one subject are in flight, one of them inside its
\* session step with a session in the map
C8_Witness ==
    \E w \in Slots, v \in Slots :
      /\ w # v
      /\ pc[w] = "live_check" /\ pc[v] = "queued"
      /\ req[w].user_id = req[v].user_id
      /\ req[w].user_id \in DOMAIN blink_tracker

\* the request of slot w ended with a final outcome: verified, rejected by
\* the liveness gate, or rejected by the identity gate
FinalOutcome(w) ==
    /\ Responded(w)
    /\ \/ resp[w].verified
       \/ resp[w].gate_passed = 3
       \/ /\ resp[w].gate_passed = 2
          /\ Has(w, "gate_liveness_batch") \/ Has(w, "gate_liveness")
          /\ resp[w].rejection_reason # "Blink challenge in progress"

\* C9: after a request for u returns a final outcome no session for u
\* remains in the map.
C9_SessionDeleted ==
    \A w \in Slots :
      FinalOutcome(w) => req[w].user_id \notin DOMAIN blink_tracker

\* C11: a streaming request whose frame shows no face is answered as a
\* failure of that call and leaves the subject's session as the request
\* found it: same phase, closed-frame counter, history, start time and
\* blink-achieved flag, and a session exists after it exactly if one
\* existed before it.
C11_NoFaceKeepsSession ==
    \A w \in Slots :
      (/\ Responded(w) /\ loc[w].mode = "stream" /\ Has(w, "gate_liveness")
       /\ DLIB_AVAILABLE /\ ~loc[w].face)
      =>
      /\ ~resp[w].verified
      /\ resp[w].rejection_reason = "No face detected for liveness"
      /\ SessionOf(blink_tracker, req[w].user_id) = loc[w].prior

\* C13: a request whose coordinates give a NaN distance is refused before the
\* distance is used: the location gate does not pass it and no later gate
\* (texture, liveness, identity) is reached.
C13_NaNRefused ==
    \A w \in Slots :
      (Has(w, "gate_location") /\ loc[w].dist.nan) =>
        /\ ~loc[w].loc_valid
        /\ called[w] = <<"gate_location">>

\* C14: an image that cannot be decoded, the primary frame or a challenge
\* frame, is answered with a client error before any gate is evaluated: the
\* client error follows no gate call, no gate-indexed rejection reports a
\* decode failure, and gate_texture is given a decoded image only.
C14_UndecodableIsClientError ==
    \A w \in Slots :
      /\ (pc[w] = "done" /\ resp[w].kind = "400") => called[w] = <<"decode_image">>
      /\ Responded(w) => resp[w].rejection_reason # "Failed to decode frame"
      /\ Has(w, "gate_texture") => loc[w].frame_ok

\* x clamped to [0, 1], in hundredths
Clamp01(x) == IF x < 0 THEN 0 ELSE IF x > 100 THEN 100 ELSE x

\* C18: every response has a confidence within [0, 1]; once gate_recognition
\* was evaluated it is 1 - distance clamped to [0, 1], for the accepted and
\* for the rejected outcome; for a request rejected earlier it is 0.
C18_Confidence ==
    \A w \in Slots :
      Responded(w) =>
        /\ resp[w].confidence >= 0 /\ resp[w].confidence <= 100
        /\ Has(w, "gate_recognition") =>
              resp[w].confidence = Clamp01(100 - loc[w].distance)
        /\ ~Has(w, "gate_recognition") => resp[w].confidence = 0

\* an identity rejection at a distance above 1.0: the clamp acts
C18_Witness ==
    \E w \in Slots :
      /\ Responded(w) /\ Has(w, "gate_recognition") /\ ~resp[w].verified
      /\ loc[w].distance > 100
      /\ resp[w].confidence = 0


\* the subjects whose session the step creates, changes or removes
ChangedSubjects ==
    {B \in Users : SessionOf(blink_tracker', B) # SessionOf(blink_tracker, B)}

\* the subjects the step is made for: the subject of the request whose
\* handler moves, the subject delete_user removes from USER_DB; a step that
\* leaves both alone is reset_challenge(u) and is made for one subject u
ActingSubjects ==
    IF pc' # pc
    THEN {req[w].user_id : w \in {x \in Slots : pc'[x] # pc[x]}}
    ELSE IF USER_DB' # USER_DB
    THEN DOMAIN USER_DB \ DOMAIN USER_DB'
    ELSE {u \in Users : blink_tracker' = reset_blink_challenge(blink_tracker, u)}

\* C31: sessions are isolated by subject: an operation performed for subject
\* A (a step of a verify_attendance request in either mode with its calls of
\* gate_liveness and reset_blink_challenge, delete_user, the reset-challenge
\* endpoint) leaves the existence and every field of the session of every
\* other subject B unchanged, however the requests interleave.
C31_SessionsIsolated ==
    [][/\ ChangedSubjects \subseteq ActingSubjects
       /\ Cardinality(ChangedSubjects) <= 1
       /\ DOMAIN blink_tracker' \subseteq DOMAIN blink_tracker \cup ActingSubjects]_vars

\* a request for one subject has just called gate_liveness and has a
\* session, while another subject has a session in progress
C31_Witness ==
    \E w \in Slots, B \in Users :
      /\ pc[w] = "live_check" /\ loc[w].face
      /\ req[w].user_id \in DOMAIN blink_tracker
      /\ B # req[w].user_id
      /\ B \in DOMAIN blink_tracker
      /\ Len(blink_tracker[B].ear_history) >= 1

-----------------------------------------------------------------------------
(* Properties of the blink challenge (specification SpecGate) *)

Open(ear) == ear > EarThreshold
Closed(ear) == ear < EarThreshold

\* elapsed time of the k-th sample of session tr
Elapsed(tr, k) == tr.timestamps[k] - tr.start_time

\* the samples of session tr are i open ones, then closed ones up to the
\* j-th, then one open one, all within the timeout
BlinkPattern(tr, i, j) ==
    LET h == tr.ear_history IN
    /\ 1 <= i /\ i + DefaultMinBlinkFrames <= j /\ Len(h) = j + 1
    /\ \A k \in 1..i : Open(h[k])
    /\ \A k \in (i + 1)..j : Closed(h[k])
    /\ Open(h[j + 1])
    /\ \A k \in 1..(j + 1) : Elapsed(tr, k) <= TimeoutSeconds

\* C5: from no session, calls with a face and EAR samples one or more open,
\* then two or more closed (min_blink_frames = 2), then one open, all within
\* the timeout, take the session WAITING_FOR_OPEN -> EYES_OPEN ->
\* EYES_CLOSING -> EYES_CLOSED -> BLINK_COMPLETE; every call returns pass
\* and check_blink_complete is true afterwards.
C5_BlinkSequence ==
    \A u \in DOMAIN blink_tracker :
      LET tr == blink_tracker[u]
          v == hist[u]
          n == Len(tr.ear_history)
      IN \A i \in 1..n, j \in 1..n :
           (/\ BlinkPattern(tr, i, j)
            /\ Len(v) = n
            /\ \A k \in 1..n : v[k].min_blink_frames = DefaultMinBlinkFrames)
           =>
           /\ \A k \in 1..n : v[k].valid
           /\ \A k \in 1..i : v[k].state = "EYES_OPEN"
           /\ v[i + 1].state = "EYES_CLOSING"
           /\ \A k \in (i + 2)..j : v[k].state = "EYES_CLOSED"
           /\ v[n].state = "BLINK_COMPLETE"
           /\ tr.state = "BLINK_COMPLETE"
           /\ check_blink_complete(blink_tracker, u)

\* the samples 0.30, 0.30, 0.10, 0.10, 0.30 with min_blink_frames = 2
C5_Witness ==
    \E u \in DOMAIN blink_tracker :
      /\ blink_tracker[u].ear_history = <<30, 30, 10, 10, 30>>
      /\ BlinkPattern(blink_tracker[u], 2, 4)
      /\ Len(hist[u]) = 5
      /\ \A k \in 1..5 : hist[u][k].min_blink_frames = DefaultMinBlinkFrames

\* every sample of session tr is above the threshold, and its last one is
\* the first that comes after the timeout
OpenUntilTimeout(tr) ==
    LET n == Len(tr.ear_history) IN
    /\ \A k \in 1..n : Open(tr.ear_history[k])
    /\ Elapsed(tr, n) > TimeoutSeconds
    /\ \A k \in 1..(n - 1) : Elapsed(tr, k) <= TimeoutSeconds

\* C6: in a session whose samples all stay above the threshold, the first
\* call made after the timeout returns fail with a timeout reason, and
\* blink-achieved is false then and at every earlier point of the session.
C6_TimeoutFails ==
    \A u \in DOMAIN blink_tracker :
      LET tr == blink_tracker[u]
          v == hist[u]
          n == Len(tr.ear_history)
      IN (OpenUntilTimeout(tr) /\ Len(v) = n) =>
           /\ ~v[n].valid
           /\ v[n].msg = "Timeout: No blink detected"
           /\ ~tr.blink_detected
           /\ \A k \in 1..n : ~v[k].blink_detected

C6_Witness ==
    \E u \in DOMAIN blink_tracker :
      /\ OpenUntilTimeout(blink_tracker[u])
      /\ Len(hist[u]) = Len(blink_tracker[u].ear_history)
      /\ last.op = "gate_liveness" /\ last.user_id = u /\ ~last.valid

\* C7: BLINK_COMPLETE is entered only by a frame whose elapsed time since
\* the start of the session is within timeout_seconds.
C7_BlinkWithinTimeout ==
    \A u \in DOMAIN blink_tracker :
      \A k \in 1..Len(hist[u]) :
        (/\ hist[u][k].state = "BLINK_COMPLETE"
         /\ (k = 1 \/ hist[u][k - 1].state # "BLINK_COMPLETE"))
        => hist[u][k].elapsed_time <= TimeoutSeconds

\* the session a first-ever call with a face leaves: the one sample, no
\* closed frame counted, no blink, started at the time of the call
FirstCallSession(tr) ==
    /\ Len(tr.ear_history) = 1 /\ Len(tr.timestamps) = 1
    /\ tr.start_time = tr.timestamps[1]
    /\ tr.closed_frame_count = 0
    /\ ~tr.blink_detected
    /\ tr.state = IF Open(tr.ear_history[1]) THEN "EYES_OPEN" ELSE "WAITING_FOR_OPEN"

\* C10: reset_blink_challenge(u) discards u's session whatever its phase;
\* the next gate_liveness call for u, and a call with reset_challenge = true,
\* return the verdict and leave the session of a first-ever call for a
\* subject never seen before.
C10_ResetIsFresh ==
    /\ last.op = "reset_blink_challenge" => last.user_id \notin DOMAIN blink_tracker
    /\ (/\ last.op = "gate_liveness" /\ last.face
        /\ last.reset_challenge \/ last.origin \in {"never", "reset"})
       =>
       /\ last.user_id \in DOMAIN blink_tracker
       /\ FirstCallSession(blink_tracker[last.user_id])
       /\ blink_tracker[last.user_id].timestamps[1] <= now
       /\ Len(hist[last.user_id]) = 1
       /\ last.valid
       /\ last.msg = IF Open(blink_tracker[last.user_id].ear_history[1])
                     THEN "Eyes detected and open"
                     ELSE "Waiting for eyes to open"

\* the call that follows a reset_blink_challenge of a subject that had a
\* session
C10_Witness ==
    /\ last.op = "gate_liveness" /\ last.face
    /\ ~last.reset_challenge /\ last.origin = "reset"
    /\ FirstCallSession(blink_tracker[last.user_id])

QueryOps == {"check_blink_complete", "get_blink_status"}

\* the step is a call of one of the two query functions
QueryStep == now' = now /\ last'.op \in QueryOps

\* C21: get_blink_status(u) and check_blink_complete(u) never change the
\* session map: after the call every subject has a session exactly if it
\* had one before, with the same phase, counter, history, start time and
\* flag; for a subject with no session they report inactive / false and
\* create none.
C21_QueriesReadOnly ==
    [][QueryStep =>
         /\ \A u \in Users :
              SessionOf(blink_tracker', u) = SessionOf(blink_tracker, u)
         /\ DOMAIN blink_tracker' = DOMAIN blink_tracker
         /\ last'.user_id \notin DOMAIN blink_tracker =>
              /\ ~last'.valid
              /\ last'.status = NoStatus
              /\ last'.user_id \notin DOMAIN blink_tracker']_vars

\* a status query on a session that has seen two frames or more
C21_Witness ==
    /\ last.op = "get_blink_status"
    /\ last.user_id \in DOMAIN blink_tracker
    /\ last.status.active
    /\ last.status.frames_processed >= 2
    /\ last.status.state = blink_tracker[last.user_id].state
TimedPhases == {"EYES_OPEN", "EYES_CLOSING", "EYES_CLOSED"}

\* the k-th call of u's session found the session in phase p
Found(u, k, p) == k >= 2 /\ hist[u][k - 1].state = p

\* C22: the timeout is enforced in every timed phase: a call with a face
\* that finds the session in EYES_OPEN, EYES_CLOSING or EYES_CLOSED when the
\* time elapsed since the start of the session exceeds the timeout returns
\* fail, whatever the EAR of the frame.
C22_TimeoutEveryPhase ==
    \A u \in DOMAIN blink_tracker :
      \A k \in 1..Len(hist[u]) :
        (/\ \E p \in TimedPhases : Found(u, k, p)
         /\ hist[u][k].elapsed_time > TimeoutSeconds)
        => ~hist[u][k].valid
\* C23: with a face detected, a streaming gate_liveness call returns fail
\* only when the time elapsed since the start of the session exceeds the
\* timeout: in every phase and for every EAR a call made within the timeout
\* returns pass.
C23_FailsOnlyOnTimeout ==
    \A u \in DOMAIN blink_tracker :
      \A k \in 1..Len(hist[u]) :
        /\ hist[u][k].elapsed_time <= TimeoutSeconds => hist[u][k].valid
        /\ ~hist[u][k].valid => hist[u][k].elapsed_time > TimeoutSeconds

\* a closed-eye frame that finds the session in EYES_CLOSED exactly when the
\* timeout is reached, and passes
C23_Witness ==
    \E u \in DOMAIN blink_tracker :
      \E k \in 1..Len(hist[u]) :
        /\ Found(u, k, "EYES_CLOSED")
        /\ Closed(hist[u][k].ear)
        /\ hist[u][k].elapsed_time = TimeoutSeconds
        /\ hist[u][k].valid
\* the phase the k-th call of u's session found: a new session starts in
\* WAITING_FOR_OPEN (line 198)
PhaseFound(u, k) == IF k = 1 THEN "WAITING_FOR_OPEN" ELSE hist[u][k - 1].state

\* the closed-frame counter the k-th call of u's session found
CountFound(u, k) == IF k = 1 THEN 0 ELSE hist[u][k - 1].closed_frame_count

\* C24: a frame whose EAR equals the threshold is treated as a closed-eye
\* frame in every phase (within the timeout): in EYES_OPEN it moves the
\* session to EYES_CLOSING with closed-count 1, in EYES_CLOSING it adds one
\* to the closed-count, in WAITING_FOR_OPEN and in EYES_CLOSED the session
\* stays.
C24_ThresholdIsClosed ==
    \A u \in DOMAIN blink_tracker :
      \A k \in 1..Len(hist[u]) :
        LET v == hist[u][k] IN
        (v.ear = EarThreshold /\ v.elapsed_time <= TimeoutSeconds) =>
          /\ PhaseFound(u, k) = "EYES_OPEN" =>
               v.state = "EYES_CLOSING" /\ v.closed_frame_count = 1
          /\ PhaseFound(u, k) = "EYES_CLOSING" =>
               /\ v.closed_frame_count = CountFound(u, k) + 1
               /\ v.state \in {"EYES_CLOSING", "EYES_CLOSED"}
          /\ PhaseFound(u, k) = "WAITING_FOR_OPEN" => v.state = "WAITING_FOR_OPEN"
          /\ PhaseFound(u, k) = "EYES_CLOSED" => v.state = "EYES_CLOSED"
\* calls k .. k+m-1 of u's session found it in EYES_OPEN and brought m
\* closed-eye frames, call k+m an open-eye frame, all within the timeout
ExactBlink(u, k, m) ==
    /\ PhaseFound(u, k) = "EYES_OPEN"
    /\ k + m <= Len(hist[u])
    /\ \A i \in k..(k + m - 1) : Closed(hist[u][i].ear)
    /\ Open(hist[u][k + m].ear)
    /\ \A i \in k..(k + m) : hist[u][i].elapsed_time <= TimeoutSeconds

\* C25: for every min_blink_frames >= 1, a session in EYES_OPEN that then
\* sees exactly min_blink_frames consecutive closed frames and then an open
\* frame, within the timeout, ends in BLINK_COMPLETE; with
\* min_blink_frames = 1, the value verify_attendance passes, one closed
\* frame between open frames completes the blink.
C25_ExactlyMinFrames ==
    \A u \in DOMAIN blink_tracker :
      \A k \in 1..Len(hist[u]) :
        LET m == hist[u][k].min_blink_frames IN
        ExactBlink(u, k, m) =>
          /\ hist[u][k + m].state = "BLINK_COMPLETE"
          /\ hist[u][k + m].blink_detected
\* the closed-frame counter n fits the phase p
CountFits(p, n) ==
    /\ p \in {"WAITING_FOR_OPEN", "EYES_OPEN"} => n = 0
    /\ p = "EYES_CLOSING" => n >= 1

\* C26: the consecutive-closed-frame counter is 0 whenever the session is in
\* WAITING_FOR_OPEN or EYES_OPEN and at least 1 whenever it is in
\* EYES_CLOSING; every EYES_CLOSING -> EYES_OPEN transition sets it back to
\* 0, so the count of a later blink starts again at 1.
C26_ClosedCount ==
    \A u \in DOMAIN blink_tracker :
      /\ CountFits(blink_tracker[u].state, blink_tracker[u].closed_frame_count)
      /\ \A k \in 1..Len(hist[u]) :
           LET v == hist[u][k] IN
           /\ CountFits(v.state, v.closed_frame_count)
           /\ (PhaseFound(u, k) = "EYES_CLOSING" /\ v.state = "EYES_OPEN")
                => v.closed_frame_count = 0
           /\ (PhaseFound(u, k) = "EYES_OPEN" /\ v.state = "EYES_CLOSING")
                => v.closed_frame_count = 1

\* a blink aborted after one closed frame, and a later closed frame
C26_Witness ==
    \E u \in DOMAIN blink_tracker :
      \E k \in 1..Len(hist[u]), j \in 1..Len(hist[u]) :
        /\ PhaseFound(u, k) = "EYES_CLOSING" /\ CountFound(u, k) >= 1
        /\ hist[u][k].state = "EYES_OPEN"
        /\ j > k /\ hist[u][j].state = "EYES_CLOSING"
\* C27: while a session exists its start timestamp is the time of the call
\* that created it: no gate_liveness call without reset and no query changes
\* it, and the elapsed time computed on successive frames of the session,
\* and by a status query after them, does not decrease.
C27_StartTimeFixed ==
    \A u \in DOMAIN blink_tracker :
      LET v == hist[u]
          n == Len(v)
      IN /\ n >= 1
         /\ blink_tracker[u].start_time = v[1].current_time
         /\ \A k \in 1..n : v[k].start_time = v[1].current_time
         /\ \A k \in 1..n : v[k].elapsed_time = v[k].current_time - v[1].current_time
         /\ \A k \in 1..(n - 1) : v[k].elapsed_time <= v[k + 1].elapsed_time
         /\ (last.op = "get_blink_status" /\ last.user_id = u) =>
              /\ last.status.elapsed_time >= v[n].elapsed_time
              /\ last.status.elapsed_time <= now - v[1].current_time

\* a session created after time 0, fed a later frame and then queried
C27_Witness ==
    \E u \in DOMAIN blink_tracker :
      /\ Len(hist[u]) >= 2
      /\ blink_tracker[u].start_time > 0
      /\ hist[u][Len(hist[u])].elapsed_time > 0
      /\ last.op = "get_blink_status" /\ last.user_id = u
\* C29: BLINK_COMPLETE is terminal: once a session has blink-achieved true,
\* every later gate_liveness call for the subject with a face returns pass
\* and leaves the phase BLINK_COMPLETE and the flag true, whatever the EAR
\* and the elapsed time, until the session is reset or deleted.
C29_CompleteIsTerminal ==
    \A u \in DOMAIN blink_tracker :
      /\ \A k \in 2..Len(hist[u]) :
           hist[u][k - 1].blink_detected =>
             /\ hist[u][k].valid
             /\ hist[u][k].msg = "Liveness verified - blink detected"
             /\ hist[u][k].state = "BLINK_COMPLETE"
             /\ hist[u][k].blink_detected
      /\ (\E k \in 1..Len(hist[u]) : hist[u][k].blink_detected) =>
           /\ blink_tracker[u].state = "BLINK_COMPLETE"
           /\ blink_tracker[u].blink_detected

\* a closed-eye frame after the timeout that finds the blink achieved
C29_Witness ==
    \E u \in DOMAIN blink_tracker :
      \E k \in 2..Len(hist[u]) :
        /\ hist[u][k - 1].blink_detected
        /\ Closed(hist[u][k].ear)
        /\ hist[u][k].elapsed_time > TimeoutSeconds
\* subject u has a session in BLINK_COMPLETE
Complete(u) ==
    u \in DOMAIN blink_tracker /\ blink_tracker[u].state = "BLINK_COMPLETE"

\* C30: in every reachable state and for every subject with a session, the
\* blink-achieved flag is true if and only if the phase is BLINK_COMPLETE,
\* and the phase is one of the five named states; check_blink_complete(u)
\* is true exactly when u has a session in BLINK_COMPLETE.
C30_FlagIffComplete ==
    /\ \A u \in DOMAIN blink_tracker :
         /\ blink_tracker[u].state \in Phases
         /\ blink_tracker[u].blink_detected <=> Complete(u)
         /\ \A k \in 1..Len(hist[u]) :
              /\ hist[u][k].state \in Phases
              /\ hist[u][k].blink_detected <=> hist[u][k].state = "BLINK_COMPLETE"
    /\ \A u \in Users : check_blink_complete(blink_tracker, u) <=> Complete(u)
    /\ last.op = "check_blink_complete" => (last.valid <=> Complete(last.user_id))

\* check_blink_complete answering True
C30_Witness ==
    /\ last.op = "check_blink_complete"
    /\ last.valid
    /\ Complete(last.user_id)
\* the j-th call of u's session took it from WAITING_FOR_OPEN to EYES_OPEN
\* later than the timeout after its creation, and the i-th brought the
\* first open-eye frame after that
LateOpen(u, j, i) ==
    /\ PhaseFound(u, j) = "WAITING_FOR_OPEN"
    /\ hist[u][j].state = "EYES_OPEN"
    /\ hist[u][j].current_time - hist[u][1].current_time > TimeoutSeconds
    /\ j < i
    /\ Open(hist[u][i].ear)
    /\ \A m \in (j + 1)..(i - 1) : ~Open(hist[u][m].ear)

\* C32: the elapsed time of the challenge is measured from the creation of
\* the session (its first frame), not from the entry into EYES_OPEN: no call
\* that finds the session in WAITING_FOR_OPEN fails, but the time spent
\* there counts, so a session that enters EYES_OPEN later than the timeout
\* after its creation fails on its next open-eye frame.
C32_TimedFromCreation ==
    \A u \in DOMAIN blink_tracker :
      \A i \in 1..Len(hist[u]) :
        /\ hist[u][i].elapsed_time = hist[u][i].current_time - hist[u][1].current_time
        /\ PhaseFound(u, i) = "WAITING_FOR_OPEN" => hist[u][i].valid
        /\ \A j \in 1..Len(hist[u]) : LateOpen(u, j, i) => ~hist[u][i].valid

-----------------------------------------------------------------------------
(* Properties of a long session (specification SpecLong) *)

\* the phases the table of gate_liveness allows after phase p
TableNext(p) ==
    CASE p = "WAITING_FOR_OPEN" -> {"WAITING_FOR_OPEN", "EYES_OPEN"}
      [] p = "EYES_OPEN" -> {"EYES_OPEN", "EYES_CLOSING"}
      [] p = "EYES_CLOSING" -> {"EYES_CLOSING", "EYES_CLOSED", "EYES_OPEN"}
      [] p = "EYES_CLOSED" -> {"EYES_CLOSED", "BLINK_COMPLETE"}
      [] p = "BLINK_COMPLETE" -> {"BLINK_COMPLETE"}
      [] OTHER -> {}

\* C28: every streaming gate_liveness call with a face adds exactly one
\* (EAR, timestamp) sample to the session, in every phase, BLINK_COMPLETE
\* and the timeout failure included, and moves the phase by at most one
\* transition of the table; the two histories have the same length, never
\* more than 30 entries, and hold the most recent min(n, 30) of the n
\* samples of the session in the order they arrived.
C28_RollingHistory ==
    \A u \in DOMAIN blink_tracker :
      LET tr == blink_tracker[u]
          v == hist[u]
          n == Len(v)
          kept == Min2(n, HistCap)
      IN /\ Len(tr.ear_history) = kept
         /\ Len(tr.timestamps) = kept
         /\ kept <= HistCap
         /\ \A i \in 1..kept :
              /\ tr.ear_history[i] = v[n - kept + i].ear
              /\ tr.timestamps[i] = v[n - kept + i].current_time
         /\ \A k \in 1..n : v[k].state \in TableNext(PhaseFound(u, k))
         /\ tr.state = v[n].state

\* more than 30 calls, one of them failed on the timeout and a later one
\* found the session in BLINK_COMPLETE
C28_Witness ==
    \E u \in DOMAIN blink_tracker :
      /\ Len(hist[u]) > HistCap
      /\ \E k \in 1..Len(hist[u]) : ~hist[u][k].valid
      /\ PhaseFound(u, Len(hist[u])) = "BLINK_COMPLETE"

-----------------------------------------------------------------------------
(* Properties of the stateless gates (specification SpecCalls) *)

\* C12: gate_location passes exactly if the computed distance is <= the
\* threshold (equal passes, strictly greater fails), the reference point
\* passes, and the threshold a rejection names is the one that was applied.
C12_LocationThreshold ==
    last.op = "gate_location" =>
      /\ last.r.valid <=> FloatLe(last.r.dist, ThresholdM)
      /\ last.c = "reference" => last.r.valid
      /\ ~last.r.valid => last.r.threshold_m = ThresholdM

\* C15: gate_texture passes exactly if 20 <= variance <= 250; a variance
\* below 20 fails as too low, one above 250 as too high, and the metric
\* returned is the variance.
C15_TextureRange ==
    last.op = "gate_texture" =>
      /\ last.r.valid <=> (20 <= last.variance /\ last.variance <= 250)
      /\ last.variance < 20 => last.r.msg = "Texture variance too low"
      /\ last.variance > 250 => last.r.msg = "Texture variance too high"
      /\ last.r.variance = last.variance

\* the upper bound itself passes
C15_Witness ==
    last.op = "gate_texture" /\ last.variance = 250 /\ last.r.valid

\* the distances of the query encoding q to the encodings of the list refs
Distances(q, refs) == {Abs(q - refs[i]) : i \in 1..Len(refs)}

\* the least of them
MinDistance(q, refs) ==
    CHOOSE d \in Distances(q, refs) : \A e \in Distances(q, refs) : d <= e

\* the call was given a frame with a face that the encoder encodes
FaceEncoded == DLIB_AVAILABLE /\ last.frame.face /\ ~last.frame.error

\* C16: for a non-empty reference list and a frame with a detected face,
\* gate_recognition passes exactly if the least distance of the query
\* encoding to a reference is <= 0.50, whatever the order and the number of
\* the references.
C16_RecognitionThreshold ==
    (/\ last.op = "gate_recognition" /\ FaceEncoded
     /\ last.expected_encoding_list # <<>>)
    =>
    (last.r.valid <=>
       MinDistance(last.frame.enc, last.expected_encoding_list) <= 50)

\* several references, the first of them too far, another at exactly 0.50
C16_Witness ==
    /\ last.op = "gate_recognition" /\ FaceEncoded
    /\ Len(last.expected_encoding_list) >= 2
    /\ Abs(last.frame.enc - last.expected_encoding_list[1]) > 50
    /\ MinDistance(last.frame.enc, last.expected_encoding_list) = 50
    /\ last.r.valid

\* the reason the identity call gave, and whether it failed
ReasonGiven == IF last.op = "gate4" THEN last.r.rejection_reason ELSE last.r.msg
Failed == IF last.op = "gate4" THEN ~last.r.verified ELSE ~last.r.valid
NotRegisteredReasons == {"User is not registered", "No registered face for user"}

\* C17 as stated: an empty reference set always fails the identity gate
\* with a not-registered reason, whatever the frame contains, be the gate
\* reached through the pipeline or gate_recognition called itself; the
\* reason is never given for a non-empty reference set.
C17_EmptyAlwaysNotRegistered ==
    (last.op \in {"gate4", "gate_recognition"} /\ DLIB_AVAILABLE) =>
      /\ last.expected_encoding_list = <<>> =>
            Failed /\ ReasonGiven \in NotRegisteredReasons
      /\ last.expected_encoding_list # <<>> =>
            ReasonGiven \notin NotRegisteredReasons

\* C17 amended: in the pipeline an empty reference set is always answered
\* "not registered", whatever the frame contains; gate_recognition called
\* with an empty list always fails, and with the not-registered reason
\* if a face was detected and encoded; neither gives the reason for a
\* non-empty reference set.
C17_NotRegistered ==
    /\ last.op = "gate4" =>
          /\ last.expected_encoding_list = <<>> =>
                Failed /\ ReasonGiven = "User is not registered"
          /\ last.expected_encoding_list # <<>> =>
                ReasonGiven \notin NotRegisteredReasons
    /\ last.op = "gate_recognition" =>
          /\ last.expected_encoding_list = <<>> =>
                /\ Failed
                /\ FaceEncoded => ReasonGiven = "No registered face for user"
          /\ last.expected_encoding_list # <<>> =>
                ReasonGiven \notin NotRegisteredReasons

\* the pipeline's answer to an unregistered subject whose frame shows no face
C17_Witness ==
    /\ last.op = "gate4" /\ DLIB_AVAILABLE
    /\ last.expected_encoding_list = <<>> /\ ~last.frame.face
    /\ ReasonGiven = "User is not registered"

\* the batch call was given frames that all show a face
AllFaces == DLIB_AVAILABLE /\ \A i \in 1..Len(last.frames) : last.frames[i].face

\* the EAR of each frame, and the set of them
EarsGiven == [i \in 1..Len(last.frames) |-> last.frames[i].ear]
EarSet == {last.frames[i].ear : i \in 1..Len(last.frames)}

\* max EAR - min EAR over the whole list
Spread ==
    (CHOOSE a \in EarSet : \A b \in EarSet : a >= b)
    - (CHOOSE a \in EarSet : \A b \in EarSet : a <= b)

C20_BatchDetails ==
    (last.op = "gate_liveness_batch" /\ DLIB_AVAILABLE) =>
      /\ last.r.details.given
      /\ (AllFaces /\ last.frames # <<>>) =>
            /\ last.r.details.ear_history = EarsGiven
            /\ last.r.details.avg_sum = SeqSum(EarsGiven)
            /\ last.r.details.max_ear - last.r.details.min_ear = Spread
            /\ last.r.details.ear_drop = Spread


====
